---- MODULE Spec2Model ----
(***************************************************************************)
(* Glitch Cube conversation agent (Home Assistant custom component).       *)
(*                                                                         *)
(* Two revisions of GlitchCubeConversationEntity are modelled:             *)
(*   "stateful"  config/homeassistant/.../conversation.py                  *)
(*   "stateless" data/production/homeassistant/.../conversation.py         *)
(*                                                                         *)
(* async_process is a coroutine: it runs on the Home Assistant event loop  *)
(* and other coroutines run only while it is suspended at an await.  Each  *)
(* action below is one run of the code between two awaits.                 *)
(***************************************************************************)
EXTENDS Integers, Sequences, FiniteSets, TLC

(***************************************************************************)
(* JSON / Python values.  Every value is a tagged record, so that values   *)
(* of different Python types can be compared.                              *)
(***************************************************************************)
Null == [t |-> "null"]

Str(s) == [t |-> "str", s |-> s]

Num(n) == [t |-> "num", n |-> n]

Bool(b) == [t |-> "bool", b |-> b]

List(q) == [t |-> "list", items |-> q]

Obj(f) == [t |-> "obj", fields |-> f]

\* a key left out of a dict while the dict is being built
Absent == [t |-> "absent"]

\* a local variable not assigned yet
Unset == [t |-> "unset"]

EmptyDict == Obj([k \in {} |-> Null])

\* the dict with the keys of f whose value is not Absent
Dict(f) == Obj([k \in {x \in DOMAIN f : f[x] # Absent} |-> f[k]])

\* Python truth value: bool(v)
Truthy(v) ==
    CASE v.t = "null" -> FALSE
      [] v.t = "bool" -> v.b
      [] v.t = "num"  -> v.n # 0
      [] v.t = "str"  -> v.s # ""
      [] v.t = "list" -> v.items # <<>>
      [] v.t = "obj"  -> DOMAIN v.fields # {}
      [] OTHER        -> FALSE

\* v.get exists (v is a dict); otherwise v.get raises AttributeError
HasGet(v) == v.t = "obj"

\* dict.get(key, default)
Get(v, key, default) == IF key \in DOMAIN v.fields THEN v.fields[key] ELSE default

\* len(v) is defined; otherwise len(v) raises TypeError
HasLen(v) == v.t \in {"str", "list", "obj"}

(***************************************************************************)
(* const.py                                                                *)
(***************************************************************************)
RESPONSE_KEY == "response"

ACTIONS_KEY == "actions"

CONTINUE_KEY == "continue_conversation"

MEDIA_KEY == "media_actions"

DEFAULT_HOST == "localhost"

(***************************************************************************)
(* The replies of the except clauses and the fallback reply.               *)
(***************************************************************************)
MSG_TIMEOUT == "I'm having trouble thinking right now. Please try again."

MSG_CONNECT == "I can't connect to my brain right now. Please try again."

MSG_BACKEND == "Something went wrong with my thinking. Please try again."

MSG_UNEXPECTED == "I encountered an unexpected error. Please try again."

MSG_FALLBACK == "I didn't understand that."

DEFAULT_SPEAKER == "media_player.glitchcube_speaker"

(***************************************************************************)
(* Bounds of the model.                                                    *)
(***************************************************************************)
\* concurrent async_process coroutines
NumTasks == 2

\* async_process calls begun in one behaviour of SpecSessions
MaxCalls == 3

\* descriptors carried by one response (actions and media_actions together)
MaxBatch == 3

\* readings of the clock (tenths of a second)
MaxClock == 1

\* how many forms are submitted to the config flow
MaxSubmissions == 4

Tasks == 1..NumTasks

ConvIds == {"c1", "c1_0"}

Texts == {"hello"}

Revisions == {"stateful", "stateless"}

(***************************************************************************)
(* Inputs: what the backend may answer.                                    *)
(***************************************************************************)
SeqsUpTo(S, n) == UNION {[1..k -> S] : k \in 0..n}

Action(domain, service) == Dict([domain |-> domain, service |-> service])

\* a well-formed descriptor, one without service, one without domain, one
\* whose service is the empty string, and an entry that is no mapping
ActionDescriptors ==
    { Action(Str("light"), Str("turn_on")),
      Action(Str("light"), Absent),
      Action(Absent, Str("turn_on")),
      Action(Str("light"), Str("")),
      Str("oops") }

Media(type, message, url, entity_id) ==
    Dict([type |-> type, message |-> message, url |-> url, entity_id |-> entity_id])

MediaDescriptors ==
    { Media(Str("tts"), Str("beep boop"), Absent, Absent),
      Media(Str("tts"), Absent, Absent, Absent),
      Media(Str("audio"), Absent, Str("http://cube/a.mp3"), Str("media_player.kitchen")),
      Media(Str("audio"), Absent, Absent, Absent),
      Media(Str("sound_effect"), Absent, Str("http://cube/fx.mp3"), Absent),
      Media(Str("video"), Absent, Str("http://cube/v.mp4"), Absent),
      Str("oops") }

\* the value of an actions / media_actions field: left out, null, a number,
\* or a list of at most n entries
BatchValues(S, n) == {Absent, Null, Num(5)} \cup {List(q) : q \in SeqsUpTo(S, n)}

BatchLen(v) == IF v.t = "list" THEN Len(v.items) ELSE 0

ResponseValues == {Absent, Str("Hello, human."), Null}

ContinueValues == {Absent, Bool(TRUE), Bool(FALSE)}

\* the (actions, media_actions) values with at most n descriptors in all
BatchPairs(n) ==
    UNION { { <<a, m>> : m \in BatchValues(MediaDescriptors, n - BatchLen(a)) } :
            a \in BatchValues(ActionDescriptors, n) }

Data(response, continue_conversation, actions, media_actions) ==
    Dict([response |-> response, continue_conversation |-> continue_conversation,
          actions |-> actions, media_actions |-> media_actions])

\* every shape of the envelope, around at most one descriptor
EnvelopeData ==
    {Absent, Null} \cup
    { Data(r, c, p[1], p[2]) : r \in ResponseValues, c \in ContinueValues,
                                p \in BatchPairs(1) }

\* the (actions, media_actions) lists with at most n descriptors in all
ListPairs(n) ==
    UNION { { <<List(a), List(m)>> : m \in SeqsUpTo(MediaDescriptors, n - Len(a)) } :
            a \in SeqsUpTo(ActionDescriptors, n) }

\* every batch of at most MaxBatch descriptors in all, in a plain envelope
DispatchData ==
    { Data(Str("Hello, human."), Absent, p[1], p[2]) : p \in ListPairs(MaxBatch) }

Body(success, data, error) == Dict([success |-> success, data |-> data, error |-> error])

EnvelopeBodies ==
    { Body(s, d, e) : s \in {Absent, Bool(TRUE), Bool(FALSE)}, d \in EnvelopeData,
                      e \in {Absent, Str("boom")} }
    \cup { List(<<>>) }

DispatchBodies == { Body(Bool(TRUE), d, Absent) : d \in DispatchData }

Http(status, body) == [kind |-> "http", status |-> status, body |-> body]

Failure(kind) == [kind |-> kind]

\* the outcomes of the POST other than an answer: the total timeout expires,
\* aiohttp raises a ClientError, anything else is raised (the body is no JSON)
Failures == {Failure("timeout"), Failure("client_error"), Failure("exception")}

RichResponses ==
    Failures
    \cup { Http(st, b) : st \in {200, 404, 500}, b \in EnvelopeBodies }
    \cup { Http(200, b) : b \in DispatchBodies }

\* a few answers, for the behaviours with several turns in flight
FewResponses ==
    { Failure("timeout"),
      Http(500, Body(Absent, Absent, Absent)),
      Http(200, Body(Bool(TRUE),
                     Dict([response |-> Str("Lights on."),
                           continue_conversation |-> Bool(FALSE),
                           actions |-> List(<<Action(Str("light"), Str("turn_on"))>>)]),
                     Absent)) }

(***************************************************************************)
(* State.                                                                  *)
(***************************************************************************)
VARIABLES
    scope,              \* "turn": one turn, any answer; "sessions": several turns;
                        \* "dispatch": turns and the services they started;
                        \* "endpoint": turns while the host override changes;
                        \* "proactive": turns and proactive conversations;
                        \* "config": submissions to the config flow
    revision,           \* which conversation.py runs
    config_timeout,     \* config_entry.data.get("timeout"): Absent or a number
    host_state,         \* hass.states.get("input_text.glitchcube_host")
    now,                \* the last reading of dt_util.utcnow(), in tenths of a second
    sessions,           \* self._conversation_sessions
    begun,              \* history: async_process calls begun, per conversation_id
    pc,                 \* where each coroutine is
    user_input,         \* its ConversationInput
    payload,            \* the request it posted
    posts,              \* history: the session.post calls made in this call
    response,           \* history: what the POST came back with
    conversation_data,  \* local conversation_data
    response_text,      \* local response_text
    idx,                \* position of the for loop in the current batch
    calls,              \* history: the hass.services.async_call made in this turn
    completed,          \* history: which of them the service has carried out
    result,             \* how the call ended: the ConversationResult returned, or
                        \* the exception that left async_process
    proactive,          \* the coroutine of trigger_proactive_conversation: where it
                        \* is, what it posted and how it ended
    config_flow         \* which config_flow.py is installed, the config entries of
                        \* the integration and the config flows in progress

vars == <<scope, revision, config_timeout, host_state, now, sessions, begun, pc, user_input, payload,
          posts, response, conversation_data, response_text, idx, calls, completed, result,
          proactive, config_flow>>

locals == <<user_input, payload, posts, response, conversation_data, response_text, idx,
            calls, completed, result>>

Total(f) == LET RECURSIVE Sum(_)
                Sum(S) == IF S = {} THEN 0
                          ELSE LET x == CHOOSE y \in S : TRUE IN f[x] + Sum(S \ {x})
            IN Sum(DOMAIN f)

\* async_process calls the host makes in one behaviour
Budget ==
    CASE scope = "turn"     -> 1
      [] scope = "dispatch" -> NumTasks
      [] OTHER              -> MaxCalls

\* the conversations the calls are for (the dispatcher does not look at them)
Conversations == IF scope = "dispatch" THEN {"c1"} ELSE ConvIds

\* the coroutines the host runs
Callers == IF scope \in {"turn", "endpoint", "proactive"} THEN {1} ELSE Tasks

Responses == IF scope = "turn" THEN RichResponses ELSE FewResponses

\* whether an entry, or its async_call, may raise (a service that is not
\* registered, say); the scopes about the registry and the endpoint leave
\* failures out
Raises == IF scope \in {"turn", "dispatch"} THEN BOOLEAN ELSE {FALSE}

\* how far the clock may have advanced when it is read (it is read only by the
\* stateful revision, for a new session; one turn alone does not depend on it)
Horizon == IF scope = "sessions" THEN MaxClock ELSE now

(***************************************************************************)
(* __init__ and _get_current_api_url                                       *)
(***************************************************************************)
DEFAULT_PORT == 4567

DEFAULT_TIMEOUT == 10

\* the config entries: without "timeout", or with "timeout": 5 (the scopes
\* that are not about the configuration leave it out)
ConfigTimeouts == IF scope = "endpoint" THEN {Absent, Num(5)} ELSE {Absent}

\* self._timeout, in seconds: the stateful revision takes DEFAULT_TIMEOUT, the
\* production revision config_entry.data.get("timeout", 30)
EntityTimeout(rev, cfg) ==
    IF rev = "stateful" THEN DEFAULT_TIMEOUT
    ELSE IF cfg = Absent THEN 30 ELSE cfg.n

ApiUrl(host, port) == "http://" \o host \o ":" \o ToString(port) \o "/api/v1/conversation"

\* self._api_url, from the config entry (host and port left at their defaults)
StaticApiUrl == ApiUrl(DEFAULT_HOST, DEFAULT_PORT)

\* mutant: the override is not looked at
GetCurrentApiUrl_Static(hs) == StaticApiUrl

\* hs is what reading the input_text entity gives: [kind |-> "raises"],
\* [kind |-> "none"] (no such entity) or [kind |-> "state", state |-> s]
GetCurrentApiUrl(hs) ==
    IF hs.kind = "state" /\ hs.state # ""
    THEN ApiUrl(hs.state, DEFAULT_PORT)
    ELSE StaticApiUrl

(***************************************************************************)
(* _get_or_create_session                                                  *)
(***************************************************************************)
\* str() of a float timestamp, the clock being in tenths of a second
FormatTimestamp(ts) == ToString(ts \div 10) \o "." \o ToString(ts % 10)

IsoFormat(ts) == "1970-01-01T00:00:0" \o FormatTimestamp(ts) \o "+00:00"

\* mutant: the id is minted from the timestamp alone
NewSessionId_NoConversation(conversation_id, ts) == "ha_" \o FormatTimestamp(ts)

NewSessionId(conversation_id, ts) == "ha_" \o conversation_id \o "_" \o FormatTimestamp(ts)

NewRecord(conversation_id, ts, ts2) ==
    [session_id |-> NewSessionId(conversation_id, ts),
     started_at |-> IsoFormat(ts2),
     turn_count |-> 0]

\* mutant: the counter is raised only for a new record
GetOrCreateSession_NoIncrement(s, conversation_id, ts, ts2) ==
    IF conversation_id \in DOMAIN s
    THEN s
    ELSE (conversation_id :> [NewRecord(conversation_id, ts, ts2) EXCEPT !.turn_count = 1]) @@ s

\* mutant: no membership test, every call stores a new record
GetOrCreateSession_AlwaysCreate(s, conversation_id, ts, ts2) ==
    (conversation_id :> [NewRecord(conversation_id, ts, ts2) EXCEPT !.turn_count = 1]) @@ s

\* mutant: the counter of every record is raised
GetOrCreateSession_TouchAll(s, conversation_id, ts, ts2) ==
    LET created == IF conversation_id \in DOMAIN s
                   THEN s
                   ELSE (conversation_id :> NewRecord(conversation_id, ts, ts2)) @@ s
    IN  [c \in DOMAIN created |-> [created[c] EXCEPT !.turn_count = @ + 1]]

\* mutant: every call stamps the record again
GetOrCreateSession_Restamp(s, conversation_id, ts, ts2) ==
    LET created == IF conversation_id \in DOMAIN s
                   THEN s
                   ELSE (conversation_id :> NewRecord(conversation_id, ts, ts2)) @@ s
    IN  [created EXCEPT ![conversation_id].turn_count = @ + 1,
                        ![conversation_id].started_at = IsoFormat(ts2)]

\* mutant: the call that makes the record is not counted
GetOrCreateSession_FirstNotCounted(s, conversation_id, ts, ts2) ==
    IF conversation_id \in DOMAIN s
    THEN [s EXCEPT ![conversation_id].turn_count = @ + 1]
    ELSE (conversation_id :> NewRecord(conversation_id, ts, ts2)) @@ s

\* the registry after the call; ts and ts2 are the two readings of utcnow()
GetOrCreateSession(s, conversation_id, ts, ts2) ==
    LET created == IF conversation_id \in DOMAIN s
                   THEN s
                   ELSE (conversation_id :> NewRecord(conversation_id, ts, ts2)) @@ s
    IN  [created EXCEPT ![conversation_id].turn_count = @ + 1]

(***************************************************************************)
(* async_process: the try block and its except clauses                     *)
(***************************************************************************)
Ok(data) == [exc |-> "none", data |-> data]

Raise(exc) == [exc |-> exc, data |-> Unset]

\* mutant: the status of the answer is not looked at
TryBlock_IgnoreStatus(r) ==
    CASE r.kind = "timeout"      -> Raise("TimeoutError")
      [] r.kind = "client_error" -> Raise("ClientError")
      [] r.kind = "exception"    -> Raise("Exception")
      [] r.kind = "http" ->
            IF ~HasGet(r.body) THEN Raise("Exception")
            ELSE IF ~Truthy(Get(r.body, "success", Bool(FALSE)))
                 THEN Raise("ConversationError")
            ELSE Ok(Get(r.body, "data", EmptyDict))

\* mutant: data is read with result_data["data"], which raises KeyError
TryBlock_RequireData(r) ==
    CASE r.kind = "timeout"      -> Raise("TimeoutError")
      [] r.kind = "client_error" -> Raise("ClientError")
      [] r.kind = "exception"    -> Raise("Exception")
      [] r.kind = "http" ->
            IF r.status # 200 THEN Raise("ConversationError")
            ELSE IF ~HasGet(r.body) THEN Raise("Exception")
            ELSE IF ~Truthy(Get(r.body, "success", Bool(FALSE)))
                 THEN Raise("ConversationError")
            ELSE IF "data" \notin DOMAIN r.body.fields THEN Raise("Exception")
            ELSE Ok(r.body.fields.data)

\* mutant: success is not looked at, data is taken from any 200 answer
TryBlock_IgnoreSuccess(r) ==
    CASE r.kind = "timeout"      -> Raise("TimeoutError")
      [] r.kind = "client_error" -> Raise("ClientError")
      [] r.kind = "exception"    -> Raise("Exception")
      [] r.kind = "http" ->
            IF r.status # 200 THEN Raise("ConversationError")
            ELSE IF ~HasGet(r.body) THEN Raise("Exception")
            ELSE Ok(Get(r.body, "data", EmptyDict))

\* mutant: a body without success counts as a success
TryBlock_SuccessByDefault(r) ==
    CASE r.kind = "timeout"      -> Raise("TimeoutError")
      [] r.kind = "client_error" -> Raise("ClientError")
      [] r.kind = "exception"    -> Raise("Exception")
      [] r.kind = "http" ->
            IF r.status # 200 THEN Raise("ConversationError")
            ELSE IF ~HasGet(r.body) THEN Raise("Exception")
            ELSE IF ~Truthy(Get(r.body, "success", Bool(TRUE)))
                 THEN Raise("ConversationError")
            ELSE Ok(Get(r.body, "data", EmptyDict))

\* how the try block ends for the outcome r of the POST: the exception it
\* raises, or conversation_data
TryBlock(r) ==
    CASE r.kind = "timeout"      -> Raise("TimeoutError")
      [] r.kind = "client_error" -> Raise("ClientError")
      [] r.kind = "exception"    -> Raise("Exception")
      [] r.kind = "http" ->
            IF r.status # 200 THEN Raise("ConversationError")
            ELSE IF ~HasGet(r.body) THEN Raise("Exception")
            ELSE IF ~Truthy(Get(r.body, "success", Bool(FALSE)))
                 THEN Raise("ConversationError")
            ELSE Ok(Get(r.body, "data", EmptyDict))

\* mutant: except aiohttp.ClientError comes first and takes the timeout too
ExceptReply_ClientErrorFirst(exc) ==
    CASE exc \in {"ClientError", "TimeoutError"} -> MSG_CONNECT
      [] exc = "ConversationError"               -> MSG_BACKEND
      [] OTHER                                   -> MSG_UNEXPECTED

\* the reply of the except clause that catches exc
ExceptReply(exc) ==
    CASE exc = "TimeoutError"      -> MSG_TIMEOUT
      [] exc = "ClientError"       -> MSG_CONNECT
      [] exc = "ConversationError" -> MSG_BACKEND
      [] OTHER                     -> MSG_UNEXPECTED

ConversationResult(conversation_id, speech, continue_conversation) ==
    [conversation_id |-> conversation_id, speech |-> speech,
     continue_conversation |-> continue_conversation]

\* mutant: the error response is made without the conversation_id
CreateErrorResponse_NoConversation(input, error_message) ==
    ConversationResult("", Str(error_message), Bool(FALSE))

CreateErrorResponse(input, error_message) ==
    ConversationResult(input.conversation_id, Str(error_message), Bool(FALSE))

\* an exception that no except clause catches: it leaves async_process
Propagated(exception, where) == [exception |-> exception, where |-> where]

\* mutant: both revisions end the conversation by default
ContinueDefault_AlwaysFalse(rev) == Bool(FALSE)

\* the default of conversation_data.get(CONTINUE_KEY, ...)
ContinueDefault(rev) == IF rev = "stateful" THEN Bool(TRUE) ELSE Bool(FALSE)

(***************************************************************************)
(* The action dispatcher                                                   *)
(***************************************************************************)
\* mutant: every call waits for its service (blocking=True)
ServiceCall_Blocking(domain, service, service_data, target, blocking) ==
    [domain |-> domain, service |-> service, service_data |-> service_data,
     target |-> target, blocking |-> TRUE]

ServiceCall(domain, service, service_data, target, blocking) ==
    [domain |-> domain, service |-> service, service_data |-> service_data,
     target |-> target, blocking |-> blocking]

\* how a handler starts on the value of its field: "return" (not actions),
\* "raise" (len(actions) raises TypeError, outside any try) or "loop"
EnterBatch(batch) ==
    IF ~Truthy(batch) THEN "return"
    ELSE IF ~HasLen(batch) THEN "raise"
    ELSE "loop"

\* one iteration of the loop of _handle_suggested_actions: the calls it makes
ActionCalls(action) ==
    IF ~HasGet(action) THEN <<>>
    ELSE LET domain  == Get(action, "domain", Null)
             service == Get(action, "service", Null)
         IN  IF ~Truthy(domain) \/ ~Truthy(service) THEN <<>>
             ELSE << ServiceCall(domain, service, Get(action, "data", EmptyDict),
                                 Get(action, "target", EmptyDict), FALSE) >>

HandleTtsAction(tts_action) ==
    LET message   == Get(tts_action, "message", Null)
        entity_id == Get(tts_action, "entity_id", Str(DEFAULT_SPEAKER))
    IN  IF ~Truthy(message) THEN <<>>
        ELSE << ServiceCall(Str("tts"), Str("speak"),
                            Dict([message |-> message, media_player_entity_id |-> entity_id]),
                            Null, FALSE) >>

\* mutant: playback waits for the service (blocking=True)
HandleAudioAction_Blocking(audio_action) ==
    LET media_url == Get(audio_action, "url", Null)
        entity_id == Get(audio_action, "entity_id", Str(DEFAULT_SPEAKER))
    IN  IF ~Truthy(media_url) THEN <<>>
        ELSE << ServiceCall(Str("media_player"), Str("play_media"),
                            Dict([media_content_id |-> media_url,
                                  media_content_type |-> Str("music")]),
                            Dict([entity_id |-> entity_id]), TRUE) >>

HandleAudioAction(audio_action) ==
    LET media_url == Get(audio_action, "url", Null)
        entity_id == Get(audio_action, "entity_id", Str(DEFAULT_SPEAKER))
    IN  IF ~Truthy(media_url) THEN <<>>
        ELSE << ServiceCall(Str("media_player"), Str("play_media"),
                            Dict([media_content_id |-> media_url,
                                  media_content_type |-> Str("music")]),
                            Dict([entity_id |-> entity_id]), FALSE) >>

\* mutant: there is no branch for "sound_effect"
MediaCalls_NoSoundEffect(media_action) ==
    IF ~HasGet(media_action) THEN <<>>
    ELSE LET action_type == Get(media_action, "type", Null)
         IN  CASE action_type = Str("tts")   -> HandleTtsAction(media_action)
               [] action_type = Str("audio") -> HandleAudioAction(media_action)
               [] OTHER                      -> <<>>

\* one iteration of the loop of _handle_media_actions: the calls it makes
MediaCalls(media_action) ==
    IF ~HasGet(media_action) THEN <<>>
    ELSE LET action_type == Get(media_action, "type", Null)
         IN  CASE action_type = Str("tts")          -> HandleTtsAction(media_action)
               [] action_type = Str("audio")        -> HandleAudioAction(media_action)
               [] action_type = Str("sound_effect") -> HandleAudioAction(media_action)
               [] OTHER                             -> <<>>

\* mutant: there is no try in the loop, an entry that raises ends it
NextIndex_StopOnRaise(i, n, dispatched, raised) == IF raised THEN n + 1 ELSE i + 1

\* mutant: an entry that is not dispatched ends the loop (break for continue)
NextIndex_StopOnSkip(i, n, dispatched, raised) == IF dispatched THEN i + 1 ELSE n + 1

\* where the for loop goes after the iteration at i of n: to the next entry,
\* whether the entry was dispatched, skipped (continue) or raised (except)
NextIndex(i, n, dispatched, raised) == i + 1

(***************************************************************************)
(* Initial states                                                          *)
(***************************************************************************)
NoHost == [kind |-> "none"]

\* what reading input_text.glitchcube_host may give: no such entity, a state
\* that is empty, a state that names a host, or an exception
HostStates ==
    { NoHost,
      [kind |-> "state", state |-> ""],
      [kind |-> "state", state |-> "10.0.0.5"],
      [kind |-> "raises"] }

\* "static": homeassistant_components/.../config_flow.py, host and port asked;
\* "dynamic": config/homeassistant/.../config_flow.py, only the port asked
Variants == IF scope = "config" THEN {"static", "dynamic"} ELSE {"static"}

\* the config flows a user may have open at once
Flows == {"f1", "f2"}

NoFlow == [pc |-> "closed", unique_id |-> Unset, user_input |-> Unset,
           host |-> Unset, outcome |-> Unset]

InitCommon ==
    /\ revision \in Revisions
    /\ config_timeout \in ConfigTimeouts
    /\ host_state = NoHost
    /\ now = 0
    /\ sessions = [c \in {} |-> Unset]
    /\ begun = [c \in ConvIds |-> 0]
    /\ pc = [t \in Tasks |-> "idle"]
    /\ user_input = [t \in Tasks |-> Unset]
    /\ payload = [t \in Tasks |-> Unset]
    /\ posts = [t \in Tasks |-> 0]
    /\ response = [t \in Tasks |-> Unset]
    /\ conversation_data = [t \in Tasks |-> Unset]
    /\ response_text = [t \in Tasks |-> Unset]
    /\ idx = [t \in Tasks |-> 0]
    /\ calls = [t \in Tasks |-> <<>>]
    /\ completed = [t \in Tasks |-> {}]
    /\ result = [t \in Tasks |-> Unset]
    /\ proactive = [pc |-> "idle", url |-> Unset, payload |-> Unset,
                    response |-> Unset, result |-> Unset]
    /\ \E variant \in Variants :
          config_flow = [variant |-> variant, entries |-> <<>>, submitted |-> 0,
                         flow |-> [f \in Flows |-> NoFlow]]

\* a new entity and one turn, whatever the backend answers
Init == scope = "turn" /\ InitCommon

\* a new entity and several turns, some of them concurrent
InitSessions == scope = "sessions" /\ InitCommon

\* a new entity, several turns and the services their calls started
InitDispatch == scope = "dispatch" /\ InitCommon

\* a new entity and turns one after the other, the host override changing
InitEndpoint == scope = "endpoint" /\ InitCommon

\* a new entity of the revision that has trigger_proactive_conversation
InitProactive == scope = "proactive" /\ InitCommon /\ revision = "stateful"

\* Home Assistant with no config entry of the integration, hence no entity
InitConfig == scope = "config" /\ InitCommon /\ revision = "stateful"

(***************************************************************************)
(* async_process                                                           *)
(***************************************************************************)
\* mutant: the text and the conversation_id change places
Payload_Swapped(url, text, conversation_id, session_id, timeout) ==
    [url |-> url, message |-> conversation_id, conversation_id |-> text,
     session_id |-> session_id, timeout |-> timeout]

\* the request: where it is posted and the fields of its JSON body that the
\* properties look at (context.session_id is Absent when the body has none),
\* and the total timeout of its ClientSession
Payload(url, text, conversation_id, session_id, timeout) ==
    [url |-> url, message |-> text, conversation_id |-> conversation_id,
     session_id |-> session_id, timeout |-> timeout]

\* The host calls async_process(user_input).  The coroutine runs to its first
\* await, the POST: it resolves the URL, gets the session and builds the payload.
Start(t, text, conversation_id) ==
    /\ t \in Callers
    /\ pc[t] \in {"idle", "done", "raised"}
    /\ Total(begun) < Budget
    /\ begun' = [begun EXCEPT ![conversation_id] = @ + 1]
    /\ user_input' = [user_input EXCEPT
                        ![t] = [text |-> text, conversation_id |-> conversation_id]]
    /\ IF revision = "stateful"
       THEN \E ts \in now..Horizon : \E ts2 \in ts..Horizon :
              /\ sessions' = GetOrCreateSession(sessions, conversation_id, ts, ts2)
              /\ now' = ts2
              /\ payload' = [payload EXCEPT ![t] =
                    Payload(GetCurrentApiUrl(host_state), text, conversation_id,
                            Str(sessions'[conversation_id].session_id),
                            EntityTimeout(revision, config_timeout))]
       ELSE /\ payload' = [payload EXCEPT ![t] =
                    Payload(StaticApiUrl, text, conversation_id, Absent,
                            EntityTimeout(revision, config_timeout))]
            /\ UNCHANGED <<sessions, now>>
    /\ pc' = [pc EXCEPT ![t] = "post"]
    /\ posts' = [posts EXCEPT ![t] = 1]
    /\ response' = [response EXCEPT ![t] = Unset]
    /\ conversation_data' = [conversation_data EXCEPT ![t] = Unset]
    /\ response_text' = [response_text EXCEPT ![t] = Unset]
    /\ idx' = [idx EXCEPT ![t] = 0]
    /\ calls' = [calls EXCEPT ![t] = <<>>]
    /\ completed' = [completed EXCEPT ![t] = {}]
    /\ result' = [result EXCEPT ![t] = Unset]
    /\ UNCHANGED <<config_flow, proactive, scope, revision, config_timeout, host_state>>

\* mutant: a request that timed out or could not be sent is posted once more
PostAgain_OnTransportFailure(exc, sent) ==
    exc \in {"TimeoutError", "ClientError"} /\ sent < 2

\* Whether an except clause goes back to session.post: each of them returns
\* _create_error_response(...), and the POST stands in no loop.
PostAgain(exc, sent) == FALSE

\* The POST ends with outcome r.  The try block ends; an except clause returns
\* the error response, or the code after the try runs up to the first handler.
Receive(t, r) ==
    /\ pc[t] = "post"
    /\ response' = [response EXCEPT ![t] = r]
    /\ LET try == TryBlock(r) IN
       IF try.exc # "none"
       THEN IF PostAgain(try.exc, posts[t])
            THEN /\ posts' = [posts EXCEPT ![t] = @ + 1]
                 /\ UNCHANGED <<pc, result, conversation_data, response_text, idx>>
            ELSE /\ result' = [result EXCEPT ![t] =
                            CreateErrorResponse(user_input[t], ExceptReply(try.exc))]
                 /\ pc' = [pc EXCEPT ![t] = "done"]
                 /\ UNCHANGED <<posts, conversation_data, response_text, idx>>
       ELSE /\ UNCHANGED posts
            /\ conversation_data' = [conversation_data EXCEPT ![t] = try.data]
            /\ IF HasGet(try.data)
               THEN /\ response_text' = [response_text EXCEPT ![t] =
                                           Get(try.data, RESPONSE_KEY, Str(MSG_FALLBACK))]
                    /\ pc' = [pc EXCEPT ![t] = "actions"]
                    /\ idx' = [idx EXCEPT ![t] = 1]
                    /\ UNCHANGED result
               ELSE \* conversation_data.get raises AttributeError after the try
                    /\ pc' = [pc EXCEPT ![t] = "raised"]
                    /\ result' = [result EXCEPT ![t] =
                                    Propagated("AttributeError", "async_process")]
                    /\ UNCHANGED <<response_text, idx>>
    /\ UNCHANGED <<config_flow, proactive, scope, revision, config_timeout, host_state, now, sessions, begun,
                   user_input,
                   payload, calls, completed>>

\* mutant: the calls of an entry overtake the calls made before it
Submit_Overtaking(log, submitted) == submitted \o log

\* the calls of a turn in the order in which its coroutine awaited them
Submit(log, submitted) == log \o submitted

\* One step of a handler: it returns at once, or len(batch) raises, or the loop
\* is over (the coroutine goes on at `after`), or the loop handles the entry at
\* idx[t], which makes new_calls.  raised: the entry, or its async_call, raised;
\* the log keeps it for the calls that were made.
Loop(t, handler, batch, after, new_calls, raised) ==
    LET enter == EnterBatch(batch) IN
    /\ IF enter = "raise"
       THEN /\ pc' = [pc EXCEPT ![t] = "raised"]
            /\ result' = [result EXCEPT ![t] = Propagated("TypeError", handler)]
            /\ UNCHANGED <<idx, calls>>
       ELSE IF enter = "return" \/ idx[t] > Len(batch.items)
       THEN /\ pc' = [pc EXCEPT ![t] = after]
            /\ idx' = [idx EXCEPT ![t] = 1]
            /\ UNCHANGED <<calls, result>>
       ELSE /\ calls' = [calls EXCEPT ![t] = Submit(@,
                  [k \in 1..Len(new_calls) |->
                     [handler |-> handler, entry |-> idx[t], call |-> new_calls[k],
                      raised |-> raised]])]
            /\ idx' = [idx EXCEPT ![t] =
                        NextIndex(@, Len(batch.items), new_calls # <<>>, raised)]
            /\ UNCHANGED <<pc, result>>
    /\ UNCHANGED <<config_flow, proactive, scope, revision, config_timeout, host_state, now, sessions, begun,
                   user_input,
                   payload, posts, response, conversation_data, response_text, completed>>

\* mutant: the coroutine waits until every service it started is carried out
CanResume_AwaitCompletion(t) ==
    \A k \in 1..Len(calls[t]) : ~calls[t][k].raised => k \in completed[t]

\* The coroutine of t can go on.  An await of async_call(..., blocking=True)
\* ends only when the service has been carried out; with blocking=False it
\* ends as soon as the service is started.
CanResume(t) ==
    \A k \in 1..Len(calls[t]) :
        (calls[t][k].call.blocking /\ ~calls[t][k].raised) => k \in completed[t]

Entry(batch, i) ==
    IF batch.t = "list" /\ i \in 1..Len(batch.items) THEN batch.items[i] ELSE Null

\* await self._handle_suggested_actions(conversation_data)
HandleSuggestedActions(t) ==
    /\ pc[t] = "actions"
    /\ CanResume(t)
    /\ LET actions == Get(conversation_data[t], ACTIONS_KEY, List(<<>>)) IN
       \E raised \in Raises :
          Loop(t, "_handle_suggested_actions", actions, "media",
               ActionCalls(Entry(actions, idx[t])), raised)

\* await self._handle_media_actions(conversation_data)
HandleMediaActions(t) ==
    /\ pc[t] = "media"
    /\ CanResume(t)
    /\ LET media_actions == Get(conversation_data[t], MEDIA_KEY, List(<<>>)) IN
       \E raised \in Raises :
          Loop(t, "_handle_media_actions", media_actions, "return",
               MediaCalls(Entry(media_actions, idx[t])), raised)

\* The rest of async_process: continue_conversation, the debug log (its
\* len(response_text) raises TypeError when the reply has no length), the result.
Return(t) ==
    /\ pc[t] = "return"
    /\ CanResume(t)
    /\ IF HasLen(response_text[t])
       THEN /\ result' = [result EXCEPT ![t] =
                  ConversationResult(user_input[t].conversation_id, response_text[t],
                                     Get(conversation_data[t], CONTINUE_KEY,
                                         ContinueDefault(revision)))]
            /\ pc' = [pc EXCEPT ![t] = "done"]
       ELSE /\ pc' = [pc EXCEPT ![t] = "raised"]
            /\ result' = [result EXCEPT ![t] = Propagated("TypeError", "async_process")]
    /\ UNCHANGED <<config_flow, proactive, scope, revision, config_timeout, host_state, now, sessions, begun,
                   user_input,
                   payload, posts, response, conversation_data, response_text, idx, calls,
                   completed>>

Step(t) ==
    \/ \E text \in Texts, conversation_id \in Conversations :
          Start(t, text, conversation_id)
    \/ pc[t] = "post" /\ \E r \in Responses : Receive(t, r)
    \/ HandleSuggestedActions(t)
    \/ HandleMediaActions(t)
    \/ Return(t)

Next == \E t \in Tasks : Step(t)

\* The steps of the coroutine of t once the host has called async_process.
Resume(t) ==
    \/ pc[t] = "post" /\ \E r \in Responses : Receive(t, r)
    \/ HandleSuggestedActions(t)
    \/ HandleMediaActions(t)
    \/ Return(t)

\* Home Assistant carries out a service that a call of this turn started.
Complete(t, k) ==
    /\ k \in 1..Len(calls[t])
    /\ ~calls[t][k].raised
    /\ k \notin completed[t]
    /\ completed' = [completed EXCEPT ![t] = @ \cup {k}]
    /\ UNCHANGED <<config_flow, proactive, scope, revision, config_timeout, host_state, now, sessions, begun, pc,
                   user_input,
                   payload, posts, response, conversation_data, response_text, idx, calls,
                   result>>

\* Somebody sets, clears or removes input_text.glitchcube_host, or the state
\* machine starts to fail.
SetHost(hs) ==
    /\ hs \in HostStates
    /\ hs # host_state
    /\ host_state' = hs
    /\ UNCHANGED <<config_flow, proactive, scope, revision, config_timeout, now, sessions, begun, pc, locals>>

(***************************************************************************)
(* trigger_proactive_conversation                                          *)
(***************************************************************************)
\* what the caller passes as trigger_type and as context
TriggerTypes == {"motion"}

TriggerContexts == {Null, EmptyDict, Dict([zone |-> Str("door")])}

\* what the POST to /conversation/start may end with
TriggerResponses ==
    Failures
      \cup { Http(500, Body(Absent, Absent, Absent)),
             Http(404, Null),
             Http(200, Null),
             Http(200, Body(Bool(TRUE), Dict([response |-> Str("Hello?")]), Absent)) }

\* api_url.replace('/conversation', '/conversation/start'): the urls of
\* _get_current_api_url hold '/conversation' once, as their last segment
StartUrl(url) == url \o "/start"

TriggerPayload(trigger_type, context) ==
    [trigger |-> trigger_type,
     context |-> IF Truthy(context) THEN context ELSE EmptyDict,
     device_id |-> "glitchcube"]

Returns(value) == [kind |-> "returned", value |-> value]

\* mutant: no except clause, what the POST raises leaves the method
TriggerOutcome_Unguarded(r) ==
    IF r.kind = "http"
    THEN IF r.status = 200 THEN Returns(r.body) ELSE Returns(Null)
    ELSE [kind |-> "raised", exception |-> r.kind]

\* How trigger_proactive_conversation ends when its POST ends with r: the
\* parsed body on status 200, None on another status, and None from
\* `except Exception` on everything raised inside the try.
TriggerOutcome(r) ==
    IF r.kind = "http"
    THEN IF r.status = 200 THEN Returns(r.body) ELSE Returns(Null)
    ELSE Returns(Null)

\* trigger_proactive_conversation up to the await of the POST
TriggerProactiveConversation(trigger_type, context) ==
    /\ scope = "proactive"
    /\ proactive.pc = "idle"
    /\ proactive' = [pc |-> "post",
                     url |-> Str(StartUrl(GetCurrentApiUrl(host_state))),
                     payload |-> TriggerPayload(trigger_type, context),
                     response |-> Unset, result |-> Unset]
    /\ UNCHANGED <<config_flow, scope, revision, config_timeout, host_state, now,
                   sessions, begun, pc, locals>>

\* its POST ends with r, and the method returns
TriggerReturn(r) ==
    /\ proactive.pc = "post"
    /\ proactive' = [proactive EXCEPT !.pc = "idle", !.response = r,
                                      !.result = TriggerOutcome(r)]
    /\ UNCHANGED <<config_flow, scope, revision, config_timeout, host_state, now,
                   sessions, begun, pc, locals>>

NextProactive ==
    \/ Next
    \/ \E hs \in HostStates : SetHost(hs)
    \/ \E trigger_type \in TriggerTypes, context \in TriggerContexts :
          TriggerProactiveConversation(trigger_type, context)
    \/ \E r \in TriggerResponses : TriggerReturn(r)

(***************************************************************************)
(* config_flow.py: validate_input and ConfigFlow.async_step_user           *)
(***************************************************************************)
IntegrationDomain == "glitchcube_conversation"

\* what the form may be submitted with, after STEP_USER_DATA_SCHEMA
UserInputs(variant) ==
    IF variant = "static"
    THEN {[host |-> h, port |-> p] : h \in {"localhost", "10.0.0.5"}, p \in {DEFAULT_PORT}}
    ELSE {[port |-> p] : p \in {DEFAULT_PORT, 8080}}

\* what the GET of /health may end with
HealthResponses ==
    Failures
      \cup { Http(500, Null),
             Http(200, Null),
             Http(200, EmptyDict),
             Http(200, Dict([version |-> Str("1.2")])) }

CannotConnect == [kind |-> "CannotConnect"]

Info(title, version) == [kind |-> "info", title |-> title, version |-> version]

HealthTitle(host, port) == "Glitch Cube (" \o host \o ":" \o ToString(port) \o ")"

\* mutant: the status of the health check is not looked at
HealthCheck_AnyStatus(host, port, h) ==
    IF h.kind # "http" THEN CannotConnect
    ELSE IF ~HasGet(h.body) THEN Info(HealthTitle(host, port), Str("unknown"))
    ELSE Info(HealthTitle(host, port), Get(h.body, "version", Str("unknown")))

\* validate_input from the GET on: status 200 gives title and version, another
\* status raises CannotConnect, and so does whatever the try catches (timeout,
\* ClientError, a body that is no JSON or no dict)
HealthCheck(host, port, h) ==
    IF h.kind # "http" THEN CannotConnect
    ELSE IF h.status # 200 THEN CannotConnect
    ELSE IF ~HasGet(h.body) THEN CannotConnect
    ELSE Info(HealthTitle(host, port), Get(h.body, "version", Str("unknown")))

\* the host validate_input checks: the one submitted, or in the dynamic variant
\* the state of input_text.glitchcube_host; Absent when there is none to check
\* (no entity, empty state, or the state machine raises)
ValidatedHost(variant, form_input, hs) ==
    IF variant = "static" THEN Str(form_input.host)
    ELSE IF hs.kind = "state" /\ hs.state # "" THEN Str(hs.state)
    ELSE Absent

\* validate_input when there is no host to check
UncheckedInfo ==
    Info("Glitch Cube (Dynamic IP)",
         Str("unknown - will connect when Glitch Cube starts"))

UniqueId(variant, form_input) ==
    IF variant = "static"
    THEN form_input.host \o ":" \o ToString(form_input.port)
    ELSE IntegrationDomain

\* async_set_unique_id raises AbortFlow("already_in_progress"): another flow
\* in progress has this unique id in its context
AlreadyInProgress(cf, f, unique_id) ==
    \E g \in Flows \ {f} :
        cf.flow[g].pc # "closed" /\ cf.flow[g].unique_id = Str(unique_id)

\* _abort_if_unique_id_configured raises AbortFlow("already_configured")
AlreadyConfigured(cf, unique_id) ==
    \E i \in 1..Len(cf.entries) : cf.entries[i].unique_id = unique_id

ShowForm(errors) == [type |-> "form", step_id |-> "user", errors |-> errors]

CreateEntry(title, data) == [type |-> "create_entry", title |-> title, data |-> data]

\* async_create_entry and the end of the flow: the entry is added, with the
\* unique id of the flow's context
Finish(cf, f, unique_id, info, health) ==
    [cf EXCEPT !.entries = Append(@, [unique_id |-> unique_id, title |-> info.title,
                                      data |-> cf.flow[f].user_input,
                                      health |-> health]),
               !.flow[f] = [NoFlow EXCEPT
                              !.outcome = CreateEntry(info.title, cf.flow[f].user_input)]]

\* async_step_user(None): the form is shown
AsyncStepUser_Open(f) ==
    /\ scope = "config"
    /\ config_flow.flow[f].pc = "closed"
    /\ config_flow' = [config_flow EXCEPT
                         !.flow[f] = [NoFlow EXCEPT !.pc = "form",
                                                    !.outcome = ShowForm(<<>>)]]
    /\ UNCHANGED <<proactive, scope, revision, config_timeout, host_state, now,
                   sessions, begun, pc, locals>>

\* async_step_user(user_input), up to the await of the health check or, when
\* an AbortFlow is caught or nothing is to be checked, to its end
AsyncStepUser(f, form_input) ==
    /\ scope = "config"
    /\ config_flow.flow[f].pc = "form"
    /\ config_flow.submitted < MaxSubmissions
    /\ LET variant   == config_flow.variant
           unique_id == UniqueId(variant, form_input)
           host      == ValidatedHost(variant, form_input, host_state)
           counted   == [config_flow EXCEPT !.submitted = @ + 1,
                                            !.flow[f].user_input = form_input]
           set       == [counted EXCEPT !.flow[f].unique_id = Str(unique_id)]
       IN  config_flow' =
             IF AlreadyInProgress(config_flow, f, unique_id)
             THEN [counted EXCEPT !.flow[f].outcome = ShowForm([base |-> "unknown"])]
             ELSE IF AlreadyConfigured(config_flow, unique_id)
             THEN [set EXCEPT !.flow[f].outcome = ShowForm([base |-> "unknown"])]
             ELSE IF host = Absent
             THEN Finish(set, f, unique_id, UncheckedInfo, Absent)
             ELSE [set EXCEPT !.flow[f].pc = "validate", !.flow[f].host = host,
                              !.flow[f].outcome = Unset]
    /\ UNCHANGED <<proactive, scope, revision, config_timeout, host_state, now,
                   sessions, begun, pc, locals>>

\* the GET of /health ends with h: validate_input returns or raises, and
\* async_step_user creates the entry or shows the form again
HealthReturn(f, h) ==
    /\ config_flow.flow[f].pc = "validate"
    /\ LET this == config_flow.flow[f]
           info == HealthCheck(this.host.s, this.user_input.port, h)
       IN  config_flow' =
             IF info = CannotConnect
             THEN [config_flow EXCEPT
                     !.flow[f].pc = "form",
                     !.flow[f].outcome = ShowForm([base |-> "cannot_connect"])]
             ELSE Finish(config_flow, f, this.unique_id.s, info, h)
    /\ UNCHANGED <<proactive, scope, revision, config_timeout, host_state, now,
                   sessions, begun, pc, locals>>

NextConfig ==
    \/ \E f \in Flows : AsyncStepUser_Open(f)
    \/ \E f \in Flows : \E form_input \in UserInputs(config_flow.variant) :
          AsyncStepUser(f, form_input)
    \/ \E f \in Flows : \E h \in HealthResponses : HealthReturn(f, h)
    \/ \E hs \in HostStates : SetHost(hs)

NextDispatch ==
    \/ Next
    \/ \E t \in Tasks : \E k \in 1..Len(calls[t]) : Complete(t, k)

NextEndpoint ==
    \/ Next
    \/ \E hs \in HostStates : SetHost(hs)

\* one turn on a new entity, over every answer of the backend
Spec == Init /\ [][Next]_vars

\* several turns, concurrent ones among them, over a few answers
SpecSessions == InitSessions /\ [][Next]_vars

\* several turns and the services they started; the event loop runs every
\* coroutine that can go on, and every POST ends (answer, error or timeout)
SpecDispatch ==
    InitDispatch /\ [][NextDispatch]_vars /\ \A t \in Tasks : WF_vars(Resume(t))

\* turns one after the other while the host override changes
SpecEndpoint == InitEndpoint /\ [][NextEndpoint]_vars

\* turns and proactive conversations while the host override changes
SpecProactive == InitProactive /\ [][NextProactive]_vars

\* submissions to the config flow of either variant, two flows at once
SpecConfig == InitConfig /\ [][NextConfig]_vars

(***************************************************************************)
(* Properties                                                              *)
(***************************************************************************)
Ended(t) == pc[t] \in {"done", "raised"}

Returned(t) == pc[t] = "done"

\* the answer came with status 200 and an object that has success = true
Success200(r) ==
    /\ r.kind = "http"
    /\ r.status = 200
    /\ HasGet(r.body)
    /\ "success" \in DOMAIN r.body.fields
    /\ r.body.fields.success = Bool(TRUE)

\* the answer came with a status other than 200, or with success = false
BackendFailure(r) ==
    /\ r.kind = "http"
    /\ \/ r.status # 200
       \/ /\ HasGet(r.body)
          /\ "success" \in DOMAIN r.body.fields
          /\ r.body.fields.success = Bool(FALSE)

Apology(t, message) ==
    /\ Returned(t)
    /\ result[t].speech = Str(message)
    /\ result[t].continue_conversation = Bool(FALSE)

\* C1: async_process never lets an exception out: whatever the POST came back
\* with and whatever the service calls did, the call ends by returning a result.
C1_NeverRaises == \A t \in Tasks : pc[t] # "raised"

\* C2: an answer with a status other than 200 (whatever its body), or with
\* status 200 and success = false, is answered with the "Something went wrong
\* with my thinking" apology and continue_conversation = false.
C2_BackendFailureApology ==
    \A t \in Tasks :
        (response[t] # Unset /\ BackendFailure(response[t])) => Apology(t, MSG_BACKEND)

\* C2 witness: a 404 whose body says success = true and carries data was
\* answered with the apology.
C2_Witness ==
    \E t \in Tasks :
        /\ Returned(t)
        /\ response[t].kind = "http" /\ response[t].status = 404
        /\ HasGet(response[t].body)
        /\ Get(response[t].body, "success", Null) = Bool(TRUE)
        /\ HasGet(Get(response[t].body, "data", Null))
        /\ result[t].speech = Str(MSG_BACKEND)

\* data.response of the answer is present and is a string
HasReplyText(r) ==
    /\ HasGet(Get(r.body, "data", Null))
    /\ RESPONSE_KEY \in DOMAIN r.body.fields.data.fields
    /\ r.body.fields.data.fields[RESPONSE_KEY].t = "str"

\* C3: for a 200 answer with success = true whose data.response is present, the
\* call returns exactly that value as the reply, whatever the other fields of
\* data are and whatever the service calls do.
C3_ReplyVerbatim ==
    \A t \in Tasks :
        (Ended(t) /\ Success200(response[t]) /\ HasReplyText(response[t]))
        => /\ Returned(t)
           /\ result[t].speech = response[t].body.fields.data.fields[RESPONSE_KEY]

\* the step is the start of a call of task t
Starts(t) == pc[t] # "post" /\ pc'[t] = "post"

\* C4 (stateful revision): the first call for a conversation_id creates its
\* record with turn_count = 1; each later call raises turn_count by exactly 1
\* and sends the session_id of the record; no record is removed, and no
\* turn_count goes down and no session_id changes in any step.
C4_TurnCount ==
    [][ revision = "stateful" =>
          /\ \A t \in Tasks : Starts(t) =>
                LET c == user_input'[t].conversation_id IN
                /\ c \in DOMAIN sessions'
                /\ payload'[t].session_id = Str(sessions'[c].session_id)
                /\ IF c \in DOMAIN sessions
                   THEN sessions'[c].turn_count = sessions[c].turn_count + 1
                   ELSE sessions'[c].turn_count = 1
          /\ \A c \in DOMAIN sessions :
                /\ c \in DOMAIN sessions'
                /\ sessions'[c].turn_count >= sessions[c].turn_count
                /\ sessions'[c].session_id = sessions[c].session_id ]_vars

\* C4 witness: a conversation is at its third turn.
C4_Witness ==
    /\ revision = "stateful"
    /\ \E c \in DOMAIN sessions : sessions[c].turn_count = 3

\* the calls of conversation c that are in flight or have ended
CallsOf(c) == {t \in Tasks : user_input[t] # Unset /\ user_input[t].conversation_id = c}

\* C5 (stateful revision): under every interleaving there is a record for a
\* conversation_id exactly when a call for it has begun, its turn_count is the
\* number of calls begun for it, and every call of the conversation sent the
\* session_id of that one record.
C5_OneRecordPerConversation ==
    revision = "stateful" =>
        \A c \in ConvIds :
            /\ (c \in DOMAIN sessions) <=> (begun[c] > 0)
            /\ c \in DOMAIN sessions =>
                  /\ sessions[c].turn_count = begun[c]
                  /\ \A t \in CallsOf(c) :
                        payload[t].session_id = Str(sessions[c].session_id)

\* C5 witness: two calls for the same conversation are both waiting for the
\* answer to their POST.
C5_Witness ==
    /\ revision = "stateful"
    /\ \E t1, t2 \in Tasks :
          /\ t1 # t2
          /\ pc[t1] = "post" /\ pc[t2] = "post"
          /\ user_input[t1].conversation_id = user_input[t2].conversation_id

\* C6: a record of the registry changes only in a step that starts a call for
\* its own conversation_id; and two calls with the same utterance and the same
\* answer return the same result, whatever else was going on around them.
C6_NoInterference ==
    [][ /\ \A c \in DOMAIN sessions :
              (c \notin DOMAIN sessions' \/ sessions'[c] # sessions[c])
              => \E t \in Tasks : Starts(t) /\ user_input'[t].conversation_id = c
        /\ \A t1, t2 \in Tasks :
              ( /\ pc'[t1] = "done" /\ pc'[t2] = "done"
                /\ user_input'[t1] = user_input'[t2]
                /\ response'[t1] = response'[t2] )
              => result'[t1] = result'[t2] ]_vars

\* C6 witness: a call for one conversation has returned while a call for the
\* other one is in flight and both have their record.
C6_Witness ==
    /\ revision = "stateful"
    /\ \E t1, t2 \in Tasks :
          /\ pc[t1] = "done" /\ pc[t2] = "post"
          /\ user_input[t1].conversation_id # user_input[t2].conversation_id
          /\ sessions[user_input[t2].conversation_id].turn_count = 2

\* C7: in every state of the registry, two different conversation_id keys
\* have different session_id values.
C7_SessionIdsDiffer ==
    \A c1, c2 \in DOMAIN sessions :
        c1 # c2 => sessions[c1].session_id # sessions[c2].session_id

\* C7 witness: two records were made at the same reading of the clock.
C7_Witness ==
    /\ Cardinality(DOMAIN sessions) = 2
    /\ now = 0

\* C8: when the total timeout of the POST expires, the call returns the "I'm
\* having trouble thinking right now" apology with continue_conversation = false.
C8_TimeoutApology ==
    \A t \in Tasks :
        (response[t] # Unset /\ response[t].kind = "timeout") => Apology(t, MSG_TIMEOUT)

\* C8 witness: a call whose POST timed out has returned.
C8_Witness ==
    \E t \in Tasks : Returned(t) /\ response[t].kind = "timeout"

\* an unexpected failure: something else was raised by the POST, the body is
\* no JSON object, or the call ended with an exception
Unexpected(t) ==
    \/ pc[t] = "raised"
    \/ response[t].kind = "exception"
    \/ response[t].kind = "http" /\ response[t].status = 200 /\ ~HasGet(response[t].body)

\* C9: every kind of failure has its reply and ends the conversation: a
\* timeout, a transport error, a failure reported by the backend, and any other
\* unexpected failure (the generic apology).
C9_FailureReplies ==
    \A t \in Tasks : Ended(t) =>
        /\ response[t].kind = "timeout" => Apology(t, MSG_TIMEOUT)
        /\ response[t].kind = "client_error" => Apology(t, MSG_CONNECT)
        /\ BackendFailure(response[t]) => Apology(t, MSG_BACKEND)
        /\ Unexpected(t) => Apology(t, MSG_UNEXPECTED)

\* the descriptor has a domain and a service (both present and not empty)
HasDomainAndService(d) ==
    /\ HasGet(d)
    /\ "domain" \in DOMAIN d.fields /\ Truthy(d.fields.domain)
    /\ "service" \in DOMAIN d.fields /\ Truthy(d.fields.service)

\* the entries of batch `handler` for which the turn of t made a service call
Dispatched(t, handler) ==
    {calls[t][k].entry : k \in {j \in 1..Len(calls[t]) : calls[t][j].handler = handler}}

ActionsOf(t) == Get(conversation_data[t], ACTIONS_KEY, List(<<>>))

\* _handle_suggested_actions has gone through the entries before i
ActionsDoneBefore(t) ==
    CASE pc[t] = "actions" -> idx[t]
      [] pc[t] \in {"media", "return", "done", "raised"} -> Len(ActionsOf(t).items) + 1
      [] OTHER -> 1

\* C10: in a batch of action descriptors every entry with domain and service
\* is dispatched and every entry without one of them is skipped, the entries
\* after it being dispatched all the same; the batch does not raise.
C10_BatchSkipsMalformed ==
    \A t \in Tasks :
        (conversation_data[t] # Unset /\ HasGet(conversation_data[t])
           /\ ActionsOf(t).t = "list")
        => /\ Dispatched(t, "_handle_suggested_actions") =
                {i \in 1..(ActionsDoneBefore(t) - 1) :
                    HasDomainAndService(ActionsOf(t).items[i])}
           /\ pc[t] = "raised" => result[t].where # "_handle_suggested_actions"

\* C10 witness: a batch of three whose second entry has no service is through,
\* and entries 1 and 3 were dispatched.
C10_Witness ==
    \E t \in Tasks :
        /\ pc[t] = "media"
        /\ ActionsOf(t).t = "list" /\ Len(ActionsOf(t).items) = 3
        /\ HasGet(ActionsOf(t).items[2])
        /\ DOMAIN ActionsOf(t).items[2].fields = {"domain"}
        /\ Dispatched(t, "_handle_suggested_actions") = {1, 3}

\* a service call of this turn raised
Failed(t) == \E k \in 1..Len(calls[t]) : calls[t][k].raised

MediaOf(t) == Get(conversation_data[t], MEDIA_KEY, List(<<>>))

\* _handle_media_actions has gone through the entries before i
MediaDoneBefore(t) ==
    CASE pc[t] = "media" -> idx[t]
      [] pc[t] \in {"return", "done"} -> Len(MediaOf(t).items) + 1
      [] pc[t] = "raised" /\ result[t].where = "async_process" ->
            Len(MediaOf(t).items) + 1
      [] OTHER -> 1

\* the media descriptor names something to say or something to play
Playable(d) ==
    /\ HasGet(d)
    /\ "type" \in DOMAIN d.fields
    /\ \/ /\ d.fields.type = Str("tts")
          /\ "message" \in DOMAIN d.fields /\ Truthy(d.fields.message)
       \/ /\ d.fields.type \in {Str("audio"), Str("sound_effect")}
          /\ "url" \in DOMAIN d.fields /\ Truthy(d.fields.url)

\* C11: when a service call of a turn has failed, the entries after it in its
\* batch, and the media batch after the action batch, are dispatched all the
\* same (every entry the loops have come to and that can be dispatched has its
\* call), no handler raises, and the call returns the reply and the
\* continuation flag of the answer, as it does when no call fails.
C11_FailureIsolated ==
    \A t \in Tasks :
        (conversation_data[t] # Unset /\ HasGet(conversation_data[t])
           /\ ActionsOf(t).t = "list" /\ MediaOf(t).t = "list" /\ Failed(t))
        => /\ Dispatched(t, "_handle_suggested_actions") =
                {i \in 1..(ActionsDoneBefore(t) - 1) :
                    HasDomainAndService(ActionsOf(t).items[i])}
           /\ Dispatched(t, "_handle_media_actions") =
                {i \in 1..(MediaDoneBefore(t) - 1) : Playable(MediaOf(t).items[i])}
           /\ pc[t] = "raised" => result[t].where = "async_process"
           /\ Returned(t) =>
                /\ result[t].speech =
                      Get(conversation_data[t], RESPONSE_KEY, Str(MSG_FALLBACK))
                /\ result[t].continue_conversation =
                      Get(conversation_data[t], CONTINUE_KEY, ContinueDefault(revision))

\* C11 witness: the call for the first of two actions raised; the second
\* action and the media entry after them were dispatched and the call returned
\* the reply of the answer.
C11_Witness ==
    \E t \in Tasks :
        /\ Returned(t)
        /\ Len(calls[t]) = 3
        /\ calls[t][1].raised /\ ~calls[t][2].raised /\ ~calls[t][3].raised
        /\ Dispatched(t, "_handle_suggested_actions") = {1, 2}
        /\ Dispatched(t, "_handle_media_actions") = {1}
        /\ result[t].speech = Str("Hello, human.")

\* the services started by the turn of t and not carried out yet
Pending(t) == {k \in 1..Len(calls[t]) : ~calls[t][k].raised /\ k \notin completed[t]}

\* C12: async_process does not wait for the services it started: past the
\* POST its coroutine can always take its next step, up to the return, whatever
\* calls of the turn are still to be carried out.
C12_NoAwaitOfCompletion ==
    \A t \in Tasks : pc[t] \in {"actions", "media", "return"} => ENABLED Resume(t)

\* C12 witness: a call has returned its reply while the service it started is
\* still to be carried out.
C12_Witness ==
    \E t \in Tasks : Returned(t) /\ Pending(t) # {} /\ result[t].speech = Str("Lights on.")

\* C13: every service call the dispatcher makes, for an action, a tts entry,
\* an audio entry or a sound_effect entry, is made with blocking = false.
C13_NeverBlocking ==
    \A t \in Tasks : \A k \in 1..Len(calls[t]) : calls[t][k].call.blocking = FALSE

\* C13 witness: one turn has called light.turn_on for an action, tts.speak
\* for a tts entry and media_player.play_media for a sound_effect entry.
C13_Witness ==
    \E t \in Tasks :
        /\ Len(calls[t]) = 3
        /\ calls[t][1].handler = "_handle_suggested_actions"
        /\ calls[t][1].call.domain = Str("light")
        /\ calls[t][2].call.domain = Str("tts")
        /\ calls[t][3].call.service = Str("play_media")
        /\ MediaOf(t).items[calls[t][3].entry].fields.type = Str("sound_effect")

\* the override names a host: the entity is there and its state is not empty
OverrideSet == host_state.kind = "state" /\ host_state.state # ""

OverrideUrl == "http://" \o host_state.state \o ":4567/api/v1/conversation"

StaticUrl == "http://localhost:4567/api/v1/conversation"

\* C14 as stated: every call, in either revision, posts to the host of the
\* override as it is when the call starts, and to the configured host when the
\* override is absent, empty or cannot be read.
C14_OverrideInEveryRevision ==
    [][ \A t \in Tasks : Starts(t) =>
            payload'[t].url = IF OverrideSet THEN OverrideUrl ELSE StaticUrl ]_vars

\* C14 (amended): in the stateful revision every call posts to the host of the
\* override as it is when the call starts, and to the configured host when the
\* override is absent, empty or cannot be read; the stateless revision does not
\* read the override and always posts to the configured host; in neither does
\* resolving the URL end the call: the step that starts a call takes it to its
\* POST.
C14_EndpointResolved ==
    [][ \A t \in Tasks :
            (pc[t] \in {"idle", "done", "raised"} /\ pc'[t] # pc[t]) =>
                /\ pc'[t] = "post"
                /\ payload'[t].url =
                      IF revision = "stateful" /\ OverrideSet
                      THEN OverrideUrl ELSE StaticUrl ]_vars

\* C14 witness: the second call of the stateful revision is posted to
\* 10.0.0.5, the override having been set after the entity was made.
C14_Witness ==
    \E t \in Tasks :
        /\ revision = "stateful"
        /\ pc[t] = "post"
        /\ Total(begun) = 2
        /\ host_state = [kind |-> "state", state |-> "10.0.0.5"]
        /\ payload[t].url = "http://10.0.0.5:4567/api/v1/conversation"

Apologies == {Str(MSG_TIMEOUT), Str(MSG_CONNECT), Str(MSG_BACKEND), Str(MSG_UNEXPECTED)}

DataKeys == {RESPONSE_KEY, CONTINUE_KEY, ACTIONS_KEY, MEDIA_KEY}

\* the fields of d that are there have the types the backend documents
WellTyped(d) ==
    /\ RESPONSE_KEY \in DOMAIN d.fields => d.fields[RESPONSE_KEY].t = "str"
    /\ CONTINUE_KEY \in DOMAIN d.fields => d.fields[CONTINUE_KEY].t = "bool"
    /\ ACTIONS_KEY \in DOMAIN d.fields => d.fields[ACTIONS_KEY].t = "list"
    /\ MEDIA_KEY \in DOMAIN d.fields => d.fields[MEDIA_KEY].t = "list"

\* a 200 answer with success = true that has no data, or whose data is an
\* object that lacks some of its four fields and is well typed in the others
LacksFields(r) ==
    /\ Success200(r)
    /\ \/ "data" \notin DOMAIN r.body.fields
       \/ /\ HasGet(r.body.fields.data)
          /\ DataKeys \ DOMAIN r.body.fields.data.fields # {}
          /\ WellTyped(r.body.fields.data)

\* field key is missing from the answer r of LacksFields
Lacks(r, key) ==
    \/ "data" \notin DOMAIN r.body.fields
    \/ key \notin DOMAIN r.body.fields.data.fields

\* C15: a 200 answer with success = true whose data, or whose data.response,
\* data.continue_conversation, data.actions or data.media_actions, is missing
\* does not fail the turn: nothing is raised, no apology is returned, the
\* reply is "I didn't understand that." when data.response is missing, and no
\* service is called for a list that is missing.
C15_MissingFieldsTolerated ==
    \A t \in Tasks :
        (response[t] # Unset /\ LacksFields(response[t]))
        => /\ pc[t] \in {"actions", "media", "return", "done"}
           /\ Lacks(response[t], RESPONSE_KEY) => response_text[t] = Str(MSG_FALLBACK)
           /\ Lacks(response[t], ACTIONS_KEY) =>
                 Dispatched(t, "_handle_suggested_actions") = {}
           /\ Lacks(response[t], MEDIA_KEY) =>
                 Dispatched(t, "_handle_media_actions") = {}
           /\ Returned(t) =>
                 /\ result[t].speech \notin Apologies
                 /\ result[t].speech = response_text[t]

\* C15 witness: the answer {"success": true} was given the fallback reply and
\* no service was called.
C15_Witness ==
    \E t \in Tasks :
        /\ Returned(t)
        /\ Success200(response[t])
        /\ DOMAIN response[t].body.fields = {"success"}
        /\ result[t].speech = Str("I didn't understand that.")
        /\ calls[t] = <<>>

\* the call of t took the success path and returned
ReturnedSuccess(t) == Returned(t) /\ conversation_data[t] # Unset

\* C16: on the success path the result carries data.continue_conversation
\* when the answer has it; when it has not, the stateful revision returns true
\* and the stateless revision returns false.
C16_ContinuationFlag ==
    \A t \in Tasks :
        ReturnedSuccess(t) =>
            LET data == Get(response[t].body, "data", EmptyDict) IN
            result[t].continue_conversation =
                IF CONTINUE_KEY \in DOMAIN data.fields
                THEN data.fields[CONTINUE_KEY]
                ELSE IF revision = "stateful" THEN Bool(TRUE) ELSE Bool(FALSE)

\* C16 witness: the stateful revision returned true for an answer that has a
\* reply and no continue_conversation.
C16_Witness ==
    \E t \in Tasks :
        /\ ReturnedSuccess(t)
        /\ revision = "stateful"
        /\ HasReplyText(response[t])
        /\ CONTINUE_KEY \notin DOMAIN response[t].body.fields.data.fields
        /\ result[t].continue_conversation = Bool(TRUE)

\* the calls made for entry i of media_actions, as positions in the log
MediaCallsFor(t, i) ==
    {k \in 1..Len(calls[t]) :
        calls[t][k].handler = "_handle_media_actions" /\ calls[t][k].entry = i}

\* the call c is the one descriptor d asks for
RoutedAs(d, c) ==
    IF d.fields.type = Str("tts")
    THEN /\ c.domain = Str("tts") /\ c.service = Str("speak")
         /\ c.service_data.fields.message = d.fields.message
    ELSE /\ c.domain = Str("media_player") /\ c.service = Str("play_media")
         /\ c.service_data.fields.media_content_id = d.fields.url
         /\ c.target.fields.entity_id =
               IF "entity_id" \in DOMAIN d.fields THEN d.fields.entity_id
               ELSE Str("media_player.glitchcube_speaker")

\* C17: every media descriptor the loop has handled is routed by its type:
\* "audio" and "sound_effect" with a url make one media_player.play_media call
\* with that url on the descriptor's entity_id (the default speaker without
\* one), "tts" with a message makes one tts.speak call with that message, and
\* a descriptor without url / message, or of any other type, makes no call; no
\* descriptor makes more than one call.
C17_MediaRouting ==
    \A t \in Tasks :
        (conversation_data[t] # Unset /\ HasGet(conversation_data[t])
           /\ MediaOf(t).t = "list")
        => \A i \in 1..(MediaDoneBefore(t) - 1) :
              LET d == MediaOf(t).items[i]
                  K == MediaCallsFor(t, i)
              IN  /\ Cardinality(K) <= 1
                  /\ (K # {}) <=> Playable(d)
                  /\ \A k \in K : RoutedAs(d, calls[t][k].call)

\* C17 witness: of an audio entry for the kitchen player, a sound_effect
\* entry without entity_id and a video entry, the first two were played, the
\* second on the default speaker, and the third made no call.
C17_Witness ==
    \E t \in Tasks :
        /\ pc[t] = "return"
        /\ MediaOf(t).t = "list" /\ Len(MediaOf(t).items) = 3
        /\ \A i \in 1..3 : HasGet(MediaOf(t).items[i])
        /\ MediaOf(t).items[3].fields.type = Str("video")
        /\ Len(calls[t]) = 2
        /\ Dispatched(t, "_handle_media_actions") = {1, 2}
        /\ MediaOf(t).items[1].fields.type = Str("audio")
        /\ calls[t][1].call.target.fields.entity_id = Str("media_player.kitchen")
        /\ MediaOf(t).items[2].fields.type = Str("sound_effect")
        /\ calls[t][2].call.target.fields.entity_id = Str("media_player.glitchcube_speaker")

\* C18: the body posted for a turn has message = the text of the utterance
\* and context.conversation_id = its conversation_id, and (stateful revision)
\* context.session_id = the session_id of the record of that conversation.
C18_RequestBody ==
    \A t \in Tasks :
        payload[t] # Unset =>
            /\ payload[t].message = user_input[t].text
            /\ payload[t].conversation_id = user_input[t].conversation_id
            /\ revision = "stateful" =>
                  /\ user_input[t].conversation_id \in DOMAIN sessions
                  /\ payload[t].session_id =
                        Str(sessions[user_input[t].conversation_id].session_id)

\* C18 witness: the utterance {text: "hello", conversation_id: "c1"} is
\* posted, a second time, with context.conversation_id "c1" and the session_id
\* minted at the first turn.
C18_Witness ==
    \E t \in Tasks :
        /\ revision = "stateful"
        /\ pc[t] = "post"
        /\ user_input[t] = [text |-> "hello", conversation_id |-> "c1"]
        /\ payload[t].message = "hello"
        /\ payload[t].conversation_id = "c1"
        /\ sessions["c1"].turn_count = 2
        /\ payload[t].session_id = Str("ha_c1_0.0")

\* C19: in the stateless revision the body posted for a turn carries
\* context.session_id = "voice_" + conversation_id, a value that depends on
\* the conversation_id alone (the same for two turns of one conversation,
\* different for two conversations).
C19_DerivedSessionId ==
    \A t \in Tasks :
        (revision = "stateless" /\ payload[t] # Unset)
        => payload[t].session_id = Str("voice_" \o user_input[t].conversation_id)

\* the call of t is in flight: begun and not ended
InFlight(t) == pc[t] \in {"post", "actions", "media", "return"}

\* C20: every call that is in flight ends, giving control back to its caller,
\* whatever the other calls do and whether or not the services it started are
\* ever carried out; given that every POST ends (answer, error or timeout) and
\* every async_call returns, which is what the fairness of SpecDispatch says.
C20_EveryCallEnds == \A t \in Tasks : InFlight(t) ~> Ended(t)

\* C20 witness: a call that started a service has returned while another call
\* is still waiting for the answer to its POST.
C20_Witness ==
    \E t1, t2 \in Tasks :
        /\ t1 # t2
        /\ Returned(t1) /\ calls[t1] # <<>>
        /\ pc[t2] = "post"

\* C21: the result a call returns carries the conversation_id of the utterance
\* the call was made with, whether it is the reply of the backend or one of
\* the apologies.
C21_ResultConversationId ==
    \A t \in Tasks :
        Returned(t) => result[t].conversation_id = user_input[t].conversation_id

\* C21 witness: a call for "c1_0" whose POST failed in the transport has
\* returned the apology with conversation_id "c1_0".
C21_Witness ==
    \E t \in Tasks :
        /\ Returned(t)
        /\ response[t].kind = "client_error"
        /\ user_input[t].conversation_id = "c1_0"
        /\ result[t].conversation_id = "c1_0"
        /\ result[t].speech = Str(MSG_CONNECT)

\* the registry has a record for exactly the conversations a call has begun for
RecordsAreBegun(s, b) == \A c \in ConvIds : (c \in DOMAIN s) <=> (b[c] > 0)

\* C22 (stateful revision): before and after every step there is a record for
\* a conversation_id exactly when a call for it has begun, and no step removes
\* a record or changes its session_id or its started_at.
C22_RecordLifecycle ==
    [][ revision = "stateful" =>
          /\ RecordsAreBegun(sessions, begun)
          /\ RecordsAreBegun(sessions', begun')
          /\ \A c \in DOMAIN sessions :
                /\ c \in DOMAIN sessions'
                /\ sessions'[c].session_id = sessions[c].session_id
                /\ sessions'[c].started_at = sessions[c].started_at ]_vars

\* C22 witness: the record of "c1", made at the first reading of the clock, is
\* at its second turn after the clock has moved on and still has the
\* session_id and the started_at it was made with; "c1_0" has no record.
C22_Witness ==
    /\ revision = "stateful"
    /\ now = 1
    /\ DOMAIN sessions = {"c1"}
    /\ sessions["c1"].turn_count = 2
    /\ sessions["c1"].session_id = "ha_c1_0.0"
    /\ sessions["c1"].started_at = "1970-01-01T00:00:00.0+00:00"

\* C23: the total timeout of the POST is the timeout of the config entry when
\* the entry has one, and the default of the revision (10 s stateful, 30 s
\* stateless) only when it has none.
C23_ConfiguredTimeout ==
    \A t \in Tasks :
        payload[t] # Unset =>
            payload[t].timeout =
                IF config_timeout # Absent THEN config_timeout.n
                ELSE IF revision = "stateful" THEN 10 ELSE 30

\* C24: a turn makes service calls only after its POST was answered with
\* status 200 and success = true; a turn on a failure path (timeout, transport
\* error, other status, success = false or missing, unexpected error) makes none.
C24_NoDispatchOnFailure ==
    \A t \in Tasks :
        calls[t] # <<>> => (response[t] # Unset /\ Success200(response[t]))

\* C24 witness: a 200 answer with success = false that carries an action was
\* answered with the apology and no service was called.
C24_Witness ==
    \E t \in Tasks :
        /\ Returned(t)
        /\ response[t].kind = "http" /\ response[t].status = 200
        /\ HasGet(response[t].body)
        /\ Get(response[t].body, "success", Null) = Bool(FALSE)
        /\ HasGet(Get(response[t].body, "data", Null))
        /\ Get(response[t].body.fields.data, ACTIONS_KEY, Null)
              = List(<<Action(Str("light"), Str("turn_on"))>>)
        /\ result[t].speech = Str(MSG_BACKEND)
        /\ calls[t] = <<>>

\* the call of t ended on a failure path of its POST
FailedTurn(t) ==
    /\ Returned(t)
    /\ response[t].kind \in {"timeout", "client_error"} \/ BackendFailure(response[t])

\* C25 (stateful revision): a call is counted before its request is answered,
\* and stays counted however it ends: turn_count of a conversation is the
\* number of calls begun for it, is at least 1 while a call for it waits for
\* its answer, and is at least the number of its calls that are in flight or
\* have ended, the ones that ended in a timeout, a transport error or a failure
\* of the backend included.
C25_FailedTurnsCounted ==
    revision = "stateful" =>
        \A c \in ConvIds :
            LET count == IF c \in DOMAIN sessions THEN sessions[c].turn_count ELSE 0 IN
            /\ count = begun[c]
            /\ count >= Cardinality(CallsOf(c))
            /\ \A t \in CallsOf(c) : (pc[t] = "post" \/ FailedTurn(t)) => count >= 1

\* C25 witness: the two calls of a conversation ended one in a timeout and
\* one in a 500, and its turn_count is 2.
C25_Witness ==
    /\ revision = "stateful"
    /\ \E t1, t2 \in Tasks :
          /\ FailedTurn(t1) /\ FailedTurn(t2)
          /\ response[t1].kind = "timeout"
          /\ response[t2].kind = "http" /\ response[t2].status = 500
          /\ user_input[t1].conversation_id = "c1"
          /\ user_input[t2].conversation_id = "c1"
          /\ sessions["c1"].turn_count = 2

\* call k of the turn was submitted for a descriptor that comes before the
\* descriptor of call j: an action before a media action, and within one list
\* the earlier entry
DescriptorBefore(t, k, j) ==
    \/ /\ calls[t][k].handler = "_handle_suggested_actions"
       /\ calls[t][j].handler = "_handle_media_actions"
    \/ /\ calls[t][k].handler = calls[t][j].handler
       /\ calls[t][k].entry < calls[t][j].entry

NoSuccessField(r) ==
    /\ r.kind = "http" /\ r.status = 200
    /\ HasGet(r.body)
    /\ "success" \notin DOMAIN r.body.fields

\* C27: a 200 answer whose body has no success field is answered with the
\* "Something went wrong with my thinking" apology and continue_conversation =
\* false, and no service is called, whatever data the body carries.
C27_NoSuccessIsFailure ==
    \A t \in Tasks :
        (response[t] # Unset /\ NoSuccessField(response[t]))
        => (Apology(t, MSG_BACKEND) /\ calls[t] = <<>>)

\* C27 witness: a 200 answer without success that carries a reply and an
\* action was answered with the apology, and nothing was dispatched.
C27_Witness ==
    \E t \in Tasks :
        /\ Returned(t)
        /\ NoSuccessField(response[t])
        /\ HasReplyText(response[t])
        /\ Get(response[t].body.fields.data, ACTIONS_KEY, Null)
              = List(<<Action(Str("light"), Str("turn_on"))>>)
        /\ result[t].speech = Str(MSG_BACKEND)
        /\ result[t].continue_conversation = Bool(FALSE)
        /\ calls[t] = <<>>

\* the request of t failed: the POST timed out, could not be sent, or came back
\* without status 200
FailedRequest(r) ==
    /\ r # Unset
    /\ \/ r.kind # "http"
       \/ r.status # 200

\* C28: each async_process call sends at most one POST, and a call that returns
\* returns one ConversationResult, set once; a failed request is not posted again within the turn, and the
\* url and session_id of the request stay the ones resolved when the turn
\* began, whatever happens to the host override meanwhile.
C28_OnePostPerTurn ==
    [][\A t \in Tasks :
          /\ posts'[t] <= 1
          /\ pc'[t] \in {"done", "raised"} => posts'[t] = 1
          /\ pc'[t] = "done" => "speech" \in DOMAIN result'[t]
          /\ pc'[t] \notin {"idle", "done", "raised"} => result'[t] = Unset
          /\ (pc[t] = "post" /\ response'[t] # response[t] /\ FailedRequest(response'[t]))
                => /\ pc'[t] = "done"
                   /\ posts'[t] = posts[t]
          /\ (pc[t] # "idle" /\ ~Starts(t))
                => /\ payload'[t] = payload[t]
                   /\ posts'[t] = posts[t]
                   /\ (result[t] # Unset => result'[t] = result[t])]_vars

\* a turn posted to the override's address, the override was changed while the
\* request was out, the request failed and the call returned its one result
C28_Witness ==
    \E t \in Tasks :
        /\ Returned(t)
        /\ FailedRequest(response[t])
        /\ posts[t] = 1
        /\ result[t] # Unset
        /\ payload[t].url = ApiUrl("10.0.0.5", DEFAULT_PORT)
        /\ GetCurrentApiUrl(host_state) # payload[t].url

\* trigger_proactive_conversation has returned or raised
TriggerEnded == proactive.result # Unset

\* C29: trigger_proactive_conversation never raises; it returns the parsed body
\* when the backend answered with status 200 and None on any other status, on
\* a timeout, a transport error or anything else raised, and none of its steps
\* changes the session registry.
C29_ProactiveReturns ==
    [][/\ proactive' # proactive => sessions' = sessions
       /\ proactive'.result # Unset =>
            /\ proactive'.result.kind = "returned"
            /\ IF proactive'.response.kind = "http" /\ proactive'.response.status = 200
               THEN proactive'.result.value = proactive'.response.body
               ELSE proactive'.result.value = Null]_vars

\* with a session in the registry, a proactive conversation got the body of a
\* 200 back
C29_Witness ==
    /\ DOMAIN sessions # {}
    /\ TriggerEnded
    /\ proactive.response.kind = "http"
    /\ proactive.response.status = 200
    /\ proactive.result = Returns(proactive.response.body)
    /\ proactive.result.value # Null

\* the unique id the installed variant gives the entries: "host:port" of the
\* submitted data, or the integration's domain
EntryUniqueId(variant, entry) ==
    IF variant = "static"
    THEN entry.data.host \o ":" \o ToString(entry.data.port)
    ELSE "glitchcube_conversation"

\* the health check failed: a timeout, a connection error, or another status
\* than 200
FailedHealthCheck(h) ==
    \/ h.kind \in {"timeout", "client_error"}
    \/ h.kind = "http" /\ h.status # 200

\* C30: whatever forms are submitted, no two config entries have the same
\* unique id (host:port in the static variant, the domain in the dynamic one);
\* an entry is created only by a submission whose validation did not raise;
\* and a health check that fails shows the form with cannot_connect and
\* creates no entry.
C30_NoDuplicateEntries ==
    [][LET entries == config_flow'.entries
           variant == config_flow'.variant
       IN  /\ \A i, j \in 1..Len(entries) :
                entries[i].unique_id = entries[j].unique_id => i = j
           /\ \A i \in 1..Len(entries) :
                /\ entries[i].unique_id = EntryUniqueId(variant, entries[i])
                /\ IF entries[i].health = Absent
                   THEN variant = "dynamic"
                   ELSE ~FailedHealthCheck(entries[i].health)
                        /\ entries[i].health.kind = "http"
           /\ Len(entries) <= Len(config_flow.entries) + 1
           /\ \A f \in Flows :
                config_flow.flow[f].pc = "validate" /\ config_flow'.flow[f].pc = "form"
                  => /\ config_flow'.flow[f].outcome = ShowForm([base |-> "cannot_connect"])
                     /\ entries = config_flow.entries
           /\ \A f \in Flows : \A h \in HealthResponses :
                (FailedHealthCheck(h) /\ HealthReturn(f, h))
                  => /\ config_flow'.flow[f].outcome = ShowForm([base |-> "cannot_connect"])
                     /\ entries = config_flow.entries]_vars

\* an entry exists, a second submission with its unique id was answered with
\* the form, and a submission whose health check failed was answered with
\* cannot_connect
C30_Witness ==
    /\ Len(config_flow.entries) >= 1
    /\ \E f \in Flows :
         /\ config_flow.flow[f].pc = "form"
         /\ config_flow.flow[f].unique_id = Str(config_flow.entries[1].unique_id)
         /\ config_flow.flow[f].outcome = ShowForm([base |-> "unknown"])
    /\ \E f \in Flows :
         config_flow.flow[f].outcome = ShowForm([base |-> "cannot_connect"])

====
